---- MODULE Spec2Model ----
(***************************************************************************)
(* A model of the document-processing status tracking of the notebook      *)
(* client: the status adapters, the document-status query, the job poller  *)
(* of the upload mutation, and the upload container with its progress      *)
(* WebSocket and fallback polling.                                         *)
(*                                                                         *)
(* Status strings are sequences of one-character strings, so that          *)
(* lower-casing, list membership and substring search are computed.        *)
(***************************************************************************)
EXTENDS Integers, Sequences, FiniteSets, TLC

VARIABLES
    \* ---- status adapters (pure functions applied to one input)
    apiStatus,          \* the backend status string under test
    adapted,            \* result of adaptDocumentStatus, or NoValue
    cacheStatus,        \* result of updateDocumentStatus, or NoValue
    serviceStatus,      \* result of getDocumentStatus' switch, or NoValue
    \* ---- useDocumentStatusQuery (one document)
    dsBackend,          \* the document's status at the backend
    dsData,             \* query.state.data.status, or NoValue
    dsDocStatus,        \* status of the cached document (queryKeys.document)
    dsFetching,         \* a getDocumentStatus request is in flight
    dsTimer,            \* the refetch interval timer is scheduled
    dsEnabled,          \* the query's enabled option
    dsFx,               \* effects of refetchInterval: timeouts, toasts
    \* ---- pollAsyncJobStatus of useUploadDocumentMutation (one job)
    jpPc,               \* "idle" | "request" | "timer" | "done"
    attempts,           \* the closure's attempts counter
    jpBackend,          \* the job's status at the backend
    jpToasts,           \* terminal toasts shown, by kind
    jpInvalidated,      \* invalidateQueries calls, by cache key
    jpDocStatus,        \* status of the cached document
    jpErrorsLogged,     \* console.error calls of the catch block (capped)
    \* ---- usePDFUploaderContainer with its progress WebSockets and pollers
    up,                 \* the hook's state and refs, the sockets, timers and
                        \* requests it created, and what it has notified
    \* ---- one socket made by createProgressWebSocket, with its callbacks
    ws,                 \* the socket, its keepalive, and the callbacks invoked
    \* ---- one call of ApiClient.makeRequest
    rq,                 \* the retry loop, its timeout and the last error
    \* ---- one useApi hook and the execute calls made on it
    ua,                 \* data, error, loading, abortControllerRef, the calls
    \* ---- useSendMessageMutation on the message list of one chat session
    cm,                 \* the cached list, the clock, the mutations' contexts
    \* ---- useDeleteDocumentMutation on the cached documents list
    dl                  \* the cached list, the server's documents, the
                        \* mutations' contexts

statusVars == <<apiStatus, adapted, cacheStatus, serviceStatus>>

dsVars ==
    <<dsBackend, dsData, dsDocStatus, dsFetching, dsTimer, dsEnabled, dsFx>>

jpVars == <<jpPc, attempts, jpBackend, jpToasts, jpInvalidated, jpDocStatus,
            jpErrorsLogged>>

upVars == <<up>>

wsVars == <<ws>>

rqVars == <<rq>>

uaVars == <<ua>>

cmVars == <<cm>>

dlVars == <<dl>>

vars ==
    <<statusVars, dsVars, jpVars, upVars, wsVars, rqVars, uaVars, cmVars,
      dlVars>>

\* what an action of one component leaves alone: the other components
StatusFrame ==
    UNCHANGED <<dsVars, jpVars, upVars, wsVars, rqVars,
                uaVars, cmVars, dlVars>>

DsFrame ==
    UNCHANGED <<statusVars, jpVars, upVars, wsVars, rqVars,
                uaVars, cmVars, dlVars>>

JpFrame ==
    UNCHANGED <<statusVars, dsVars, upVars, wsVars, rqVars,
                uaVars, cmVars, dlVars>>

UpFrame ==
    UNCHANGED <<statusVars, dsVars, jpVars, wsVars, rqVars,
                uaVars, cmVars, dlVars>>

WsFrame ==
    UNCHANGED <<statusVars, dsVars, jpVars, upVars, rqVars,
                uaVars, cmVars, dlVars>>

RqFrame ==
    UNCHANGED <<statusVars, dsVars, jpVars, upVars, wsVars,
                uaVars, cmVars, dlVars>>

UaFrame ==
    UNCHANGED <<statusVars, dsVars, jpVars, upVars, wsVars,
                rqVars, cmVars, dlVars>>

CmFrame ==
    UNCHANGED <<statusVars, dsVars, jpVars, upVars, wsVars,
                rqVars, uaVars, dlVars>>

DlFrame ==
    UNCHANGED <<statusVars, dsVars, jpVars, upVars, wsVars,
                rqVars, uaVars, cmVars>>

----------------------------------------------------------------------------
(* Strings *)

S_uploaded ==
    <<"u", "p", "l", "o", "a", "d", "e", "d">>
S_pending ==
    <<"p", "e", "n", "d", "i", "n", "g">>
S_uploading ==
    <<"u", "p", "l", "o", "a", "d", "i", "n", "g">>
S_processing ==
    <<"p", "r", "o", "c", "e", "s", "s", "i", "n", "g">>
S_chunking ==
    <<"c", "h", "u", "n", "k", "i", "n", "g">>
S_vectorizing ==
    <<"v", "e", "c", "t", "o", "r", "i", "z", "i", "n", "g">>
S_indexing ==
    <<"i", "n", "d", "e", "x", "i", "n", "g">>
S_parsing ==
    <<"p", "a", "r", "s", "i", "n", "g">>
S_processed ==
    <<"p", "r", "o", "c", "e", "s", "s", "e", "d">>
S_completed ==
    <<"c", "o", "m", "p", "l", "e", "t", "e", "d">>
S_ready ==
    <<"r", "e", "a", "d", "y">>
S_complete ==
    <<"c", "o", "m", "p", "l", "e", "t", "e">>
S_error ==
    <<"e", "r", "r", "o", "r">>
S_fail ==
    <<"f", "a", "i", "l">>
S_failed ==
    <<"f", "a", "i", "l", "e", "d">>
S_cancelled ==
    <<"c", "a", "n", "c", "e", "l", "l", "e", "d">>
S_foobar ==
    <<"f", "o", "o", "b", "a", "r">>
S_parsing_failed ==
    <<"p", "a", "r", "s", "i", "n", "g", "_", "f", "a", "i", "l", "e", "d">>
S_upload_error ==
    <<"u", "p", "l", "o", "a", "d", "_", "e", "r", "r", "o", "r">>

LowerOf ==
    [A |-> "a", B |-> "b", C |-> "c", D |-> "d", E |-> "e", F |-> "f",
     G |-> "g", H |-> "h", I |-> "i", J |-> "j", K |-> "k", L |-> "l",
     M |-> "m", N |-> "n", O |-> "o", P |-> "p", Q |-> "q", R |-> "r",
     S |-> "s", T |-> "t", U |-> "u", V |-> "v", W |-> "w", X |-> "x",
     Y |-> "y", Z |-> "z"]

UpperOf ==
    [a |-> "A", b |-> "B", c |-> "C", d |-> "D", e |-> "E", f |-> "F",
     g |-> "G", h |-> "H", i |-> "I", j |-> "J", k |-> "K", l |-> "L",
     m |-> "M", n |-> "N", o |-> "O", p |-> "P", q |-> "Q", r |-> "R",
     s |-> "S", t |-> "T", u |-> "U", v |-> "V", w |-> "W", x |-> "X",
     y |-> "Y", z |-> "Z"]

\* String.prototype.toLowerCase
toLowerCase(str) ==
    [k \in 1..Len(str) |->
        IF str[k] \in DOMAIN LowerOf THEN LowerOf[str[k]] ELSE str[k]]

\* String.prototype.toUpperCase (used to build mixed-case inputs)
toUpperCase(str) ==
    [k \in 1..Len(str) |->
        IF str[k] \in DOMAIN UpperOf THEN UpperOf[str[k]] ELSE str[k]]

Capitalized(str) ==
    IF str = <<>> THEN str ELSE toUpperCase(SubSeq(str, 1, 1)) \o Tail(str)

\* String.prototype.includes(sub)
StrIncludes(str, sub) ==
    \E k \in 1..(Len(str) - Len(sub) + 1) : SubSeq(str, k, k + Len(sub) - 1) = sub

\* Array.prototype.includes(x)
ArrIncludes(arr, x) ==
    \E k \in 1..Len(arr) : arr[k] = x

NoValue ==
    <<"-">>

----------------------------------------------------------------------------
(* Status adapters *)

BACKEND_STATUSES ==
    <<S_uploaded, S_pending, S_processing, S_completed, S_error, S_processed,
      S_chunking, S_vectorizing, S_indexing>>

FRONTEND_STATUSES ==
    <<S_uploading, S_processing, S_ready, S_error>>

isBackendStatus(status) ==
    ArrIncludes(BACKEND_STATUSES, status)

isFrontendStatus(status) ==
    ArrIncludes(FRONTEND_STATUSES, status)

\* adaptDocumentStatus comparing the raw string (the lower-casing dropped)
adaptDocumentStatus_NoLowerCase(apiStr) ==
    LET status == apiStr IN
    IF ArrIncludes(<<S_pending, S_uploaded, S_uploading>>, status)
        THEN S_uploading
    ELSE IF ArrIncludes(<<S_processing, S_chunking, S_vectorizing, S_indexing,
                          S_parsing>>, status)
        THEN S_processing
    ELSE IF ArrIncludes(<<S_processed, S_completed, S_ready, S_complete>>, status)
        THEN S_ready
    ELSE S_error

adaptDocumentStatus(apiStr) ==
    LET status == toLowerCase(apiStr) IN
    IF ArrIncludes(<<S_pending, S_uploaded, S_uploading>>, status)
        THEN S_uploading
    ELSE IF ArrIncludes(<<S_processing, S_chunking, S_vectorizing, S_indexing,
                          S_parsing>>, status)
        THEN S_processing
    ELSE IF ArrIncludes(<<S_processed, S_completed, S_ready, S_complete>>, status)
        THEN S_ready
    ELSE IF StrIncludes(status, S_error) \/ StrIncludes(status, S_fail)
        THEN S_error
    ELSE S_error

mapApiStatusToUIStatus(status) ==
    CASE status \in {S_uploaded, S_pending} -> S_uploading
      [] status \in {S_processing, S_chunking, S_vectorizing, S_indexing}
            -> S_processing
      [] status \in {S_completed, S_processed} -> S_ready
      [] status = S_error -> S_error
      [] OTHER -> S_error

\* the status written to the cached document (the document is in the cache)
updateDocumentStatus(status) ==
    IF isBackendStatus(status) THEN mapApiStatusToUIStatus(status)
    ELSE IF isFrontendStatus(status) THEN status
    ELSE S_error

\* the switch of DocumentService.getDocumentStatus on response.status
getDocumentStatus(responseStatus) ==
    CASE responseStatus \in {S_processed, S_completed} -> S_ready
      [] responseStatus = S_error -> S_error
      [] responseStatus = S_processing -> S_processing
      [] responseStatus \in {S_uploaded, S_pending} -> S_processing
      [] OTHER -> S_processing

BaseStatuses ==
    {S_uploaded, S_pending, S_uploading, S_processing, S_chunking,
     S_vectorizing, S_indexing, S_parsing, S_processed, S_completed, S_ready,
     S_complete, S_error, S_failed, S_cancelled, S_foobar, S_parsing_failed,
     S_upload_error, <<>>}

StatusInputs ==
    BaseStatuses \cup {toUpperCase(w) : w \in BaseStatuses}
                 \cup {Capitalized(w) : w \in BaseStatuses}

StatusInit ==
    /\ apiStatus \in StatusInputs
    /\ adapted = NoValue
    /\ cacheStatus = NoValue
    /\ serviceStatus = NoValue

StatusIdle ==
    /\ apiStatus = <<>>
    /\ adapted = NoValue
    /\ cacheStatus = NoValue
    /\ serviceStatus = NoValue

AdaptDocumentStatus ==
    /\ adapted = NoValue
    /\ adapted' = adaptDocumentStatus(apiStatus)
    /\ UNCHANGED <<apiStatus, cacheStatus, serviceStatus>>
    /\ StatusFrame

UpdateDocumentStatus ==
    /\ cacheStatus = NoValue
    /\ cacheStatus' = updateDocumentStatus(apiStatus)
    /\ UNCHANGED <<apiStatus, adapted, serviceStatus>>
    /\ StatusFrame

GetDocumentStatus ==
    /\ serviceStatus = NoValue
    /\ serviceStatus' = getDocumentStatus(apiStatus)
    /\ UNCHANGED <<apiStatus, adapted, cacheStatus>>
    /\ StatusFrame

StatusNext ==
    \/ AdaptDocumentStatus
    \/ UpdateDocumentStatus
    \/ GetDocumentStatus

----------------------------------------------------------------------------
(* useDocumentStatusQuery: the query function and its refetchInterval *)

\* refetchInterval(query) on data.status; 0 stands for false (no refetch)
refetchInterval(status) ==
    LET processingStates == <<S_uploaded, S_pending, S_processing, S_chunking,
                              S_vectorizing, S_indexing>>
        terminalStates == <<S_ready, S_completed, S_processed, S_error,
                            S_failed>>
    IN  IF status = NoValue THEN 0
        ELSE IF ArrIncludes(processingStates, status) THEN 2000
        ELSE IF ArrIncludes(terminalStates, status) THEN 0
        ELSE 0

DsBackendStatuses ==
    {S_uploaded, S_pending, S_processing, S_chunking, S_vectorizing,
     S_indexing, S_completed, S_processed, S_error, S_failed, S_cancelled,
     S_foobar}

EffectCap == 2

Min(a, b) == IF a < b THEN a ELSE b

\* what one evaluation of refetchInterval does besides answering: on a
\* terminal status it sets a 100 ms timeout that invalidates the document
\* queries, and for processed/completed/ready it shows the success toast
refetchIntervalEffects(status, fx) ==
    LET processingStates == <<S_uploaded, S_pending, S_processing, S_chunking,
                              S_vectorizing, S_indexing>>
        terminalStates == <<S_ready, S_completed, S_processed, S_error,
                            S_failed>>
        successStates == <<S_processed, S_completed, S_ready>>
    IN  IF status = NoValue THEN fx
        ELSE IF ArrIncludes(processingStates, status) THEN fx
        ELSE IF ArrIncludes(terminalStates, status) THEN
            [timeouts |-> Min(fx.timeouts + 1, EffectCap),
             scheduled |-> Min(fx.scheduled + 1, EffectCap),
             toasts |-> IF ArrIncludes(successStates, status)
                        THEN Min(fx.toasts + 1, EffectCap)
                        ELSE fx.toasts]
        ELSE fx

DsInit ==
    /\ dsFx = [timeouts |-> 0, scheduled |-> 0, toasts |-> 0]
    /\ dsBackend = S_uploaded
    /\ dsData = NoValue
    /\ dsDocStatus = S_processing
    /\ dsFetching = TRUE
    /\ dsTimer = FALSE
    /\ dsEnabled = TRUE

\* the observer's timer after a result: scheduled while refetchInterval
\* yields a number and the query is enabled
DsSchedule(status) ==
    dsEnabled /\ refetchInterval(status) > 0

\* queryFn resolves: getDocumentStatus answered from the backend document
DsFetchResolve ==
    /\ dsFetching
    /\ LET status == getDocumentStatus(dsBackend) IN
        /\ dsData' = status
        /\ dsDocStatus' = updateDocumentStatus(status)
        /\ dsTimer' = DsSchedule(status)
        /\ dsFx' = refetchIntervalEffects(status, dsFx)
    /\ dsFetching' = FALSE
    /\ UNCHANGED <<dsBackend, dsEnabled>>
    /\ DsFrame

\* the request fails: getDocumentStatus catches and answers status error
DsFetchError ==
    /\ dsFetching
    /\ dsData' = S_error
    /\ dsDocStatus' = updateDocumentStatus(S_error)
    /\ dsTimer' = DsSchedule(S_error)
    /\ dsFx' = refetchIntervalEffects(S_error, dsFx)
    /\ dsFetching' = FALSE
    /\ UNCHANGED <<dsBackend, dsEnabled>>
    /\ DsFrame

\* the refetch timer fires and starts the next request
DsTimerFire ==
    /\ dsTimer
    /\ ~dsFetching
    /\ dsFetching' = TRUE
    /\ UNCHANGED <<dsBackend, dsData, dsDocStatus, dsTimer, dsEnabled, dsFx>>
    /\ DsFrame

\* the caller turns the query off (enabled: false)
DsDisable ==
    /\ dsEnabled
    /\ dsEnabled' = FALSE
    /\ dsTimer' = FALSE
    /\ UNCHANGED <<dsBackend, dsData, dsDocStatus, dsFetching, dsFx>>
    /\ DsFrame

DsBackendChange ==
    /\ \E s \in DsBackendStatuses \ {dsBackend} : dsBackend' = s
    /\ UNCHANGED <<dsData, dsDocStatus, dsFetching, dsTimer, dsEnabled, dsFx>>
    /\ DsFrame

\* the component renders again: useQuery hands the options to the observer,
\* which evaluates refetchInterval on the data it already has
DsRender ==
    /\ dsData # NoValue
    /\ dsFx' = refetchIntervalEffects(dsData, dsFx)
    /\ dsTimer' = DsSchedule(dsData)
    /\ UNCHANGED <<dsBackend, dsData, dsDocStatus, dsFetching, dsEnabled>>
    /\ DsFrame

\* a 100 ms timeout set by refetchInterval fires: invalidateQueries on
\* ["documents"] and ["documents", id]; the first key is a prefix of the
\* status query's key ["documents", id, "status"], so the status query is
\* fetched again while it is enabled
DsInvalidate ==
    /\ dsFx.timeouts > 0
    /\ dsFx' = [dsFx EXCEPT !.timeouts = @ - 1]
    /\ dsFetching' = (dsFetching \/ dsEnabled)
    /\ UNCHANGED <<dsBackend, dsData, dsDocStatus, dsTimer, dsEnabled>>
    /\ DsFrame

DsNext ==
    \/ DsRender
    \/ DsInvalidate
    \/ DsFetchResolve
    \/ DsFetchError
    \/ DsTimerFire
    \/ DsDisable
    \/ DsBackendChange

----------------------------------------------------------------------------
(* pollAsyncJobStatus: the job poller started by the upload mutation *)

maxAttempts ==
    150

LogCap ==
    1


JobStatuses ==
    {"pending", "processing", "completed", "failed", "cancelled"}

NoToasts ==
    [success |-> 0, failed |-> 0, timeout |-> 0, monitor |-> 0]

JpInit ==
    /\ jpPc = "idle"
    /\ attempts = 0
    /\ jpBackend = "pending"
    /\ jpToasts = NoToasts
    /\ jpInvalidated = [documents |-> 0, document |-> 0]
    /\ jpDocStatus = "processing"
    /\ jpErrorsLogged = 0

\* poll(): attempts++ and the status request is issued
JpPoll ==
    /\ attempts' = attempts + 1
    /\ jpPc' = "request"

\* pollAsyncJobStatus() is called after startAsyncProcessing resolved
JpStart ==
    /\ jpPc = "idle"
    /\ JpPoll
    /\ UNCHANGED <<jpBackend, jpToasts, jpInvalidated, jpDocStatus, jpErrorsLogged>>
    /\ JpFrame

\* the failed branch shows its toast and goes on polling (the return lost)
JpResolve_FailedKeepsPolling ==
    /\ jpPc = "request"
    /\ IF jpBackend = "completed"
        THEN /\ jpDocStatus' = "ready"
             /\ jpInvalidated' = [documents |-> jpInvalidated.documents + 1,
                                  document |-> jpInvalidated.document + 1]
             /\ jpToasts' = [jpToasts EXCEPT !.success = @ + 1]
             /\ jpPc' = "done"
        ELSE IF jpBackend = "failed"
        THEN /\ jpDocStatus' = "error"
             /\ jpToasts' = [jpToasts EXCEPT !.failed = @ + 1]
             /\ jpPc' = IF attempts >= maxAttempts THEN "done" ELSE "timer"
             /\ UNCHANGED jpInvalidated
        ELSE IF attempts >= maxAttempts
        THEN /\ jpDocStatus' = "error"
             /\ jpToasts' = [jpToasts EXCEPT !.timeout = @ + 1]
             /\ jpPc' = "done"
             /\ UNCHANGED jpInvalidated
        ELSE /\ jpPc' = "timer"
             /\ UNCHANGED <<jpDocStatus, jpToasts, jpInvalidated>>
    /\ UNCHANGED <<attempts, jpBackend, jpErrorsLogged>>
    /\ JpFrame

\* getAsyncProcessingStatus resolves with the job's current status
JpResolve ==
    /\ jpPc = "request"
    /\ IF jpBackend = "completed"
        THEN /\ jpDocStatus' = "ready"
             /\ jpInvalidated' = [documents |-> jpInvalidated.documents + 1,
                                  document |-> jpInvalidated.document + 1]
             /\ jpToasts' = [jpToasts EXCEPT !.success = @ + 1]
             /\ jpPc' = "done"
        ELSE IF jpBackend = "failed"
        THEN /\ jpDocStatus' = "error"
             /\ jpToasts' = [jpToasts EXCEPT !.failed = @ + 1]
             /\ jpPc' = "done"
             /\ UNCHANGED jpInvalidated
        ELSE IF attempts >= maxAttempts
        THEN /\ jpDocStatus' = "error"
             /\ jpToasts' = [jpToasts EXCEPT !.timeout = @ + 1]
             /\ jpPc' = "done"
             /\ UNCHANGED jpInvalidated
        ELSE /\ jpPc' = "timer"
             /\ UNCHANGED <<jpDocStatus, jpToasts, jpInvalidated>>
    /\ UNCHANGED <<attempts, jpBackend, jpErrorsLogged>>
    /\ JpFrame

\* the catch block without its test of attempts: it always polls again
JpReject_NoAttemptBound ==
    /\ jpPc = "request"
    /\ jpErrorsLogged' = Min(jpErrorsLogged + 1, LogCap)
    /\ jpPc' = "timer"
    /\ UNCHANGED <<attempts, jpBackend, jpInvalidated, jpDocStatus, jpToasts>>
    /\ JpFrame

\* getAsyncProcessingStatus rejects: the catch block
JpReject ==
    /\ jpPc = "request"
    /\ jpErrorsLogged' = Min(jpErrorsLogged + 1, LogCap)
    /\ IF attempts >= maxAttempts
        THEN /\ jpDocStatus' = "error"
             /\ jpToasts' = [jpToasts EXCEPT !.monitor = @ + 1]
             /\ jpPc' = "done"
        ELSE /\ jpPc' = "timer"
             /\ UNCHANGED <<jpDocStatus, jpToasts>>
    /\ UNCHANGED <<attempts, jpBackend, jpInvalidated>>
    /\ JpFrame

\* setTimeout(poll, 2000) fires
JpTimer ==
    /\ jpPc = "timer"
    /\ JpPoll
    /\ UNCHANGED <<jpBackend, jpToasts, jpInvalidated, jpDocStatus, jpErrorsLogged>>
    /\ JpFrame

\* the backend moves the job on; completed, failed and cancelled are final
JpBackendAdvance ==
    /\ \/ jpBackend = "pending"
          /\ jpBackend' \in {"processing", "failed", "cancelled"}
       \/ jpBackend = "processing"
          /\ jpBackend' \in {"completed", "failed", "cancelled"}
    /\ UNCHANGED <<jpPc, attempts, jpToasts, jpInvalidated, jpDocStatus,
                   jpErrorsLogged>>
    /\ JpFrame

JpNext ==
    \/ JpStart
    \/ JpResolve
    \/ JpReject
    \/ JpTimer
    \/ JpBackendAdvance

----------------------------------------------------------------------------
(* usePDFUploaderContainer, DocumentService.createProgressWebSocket *)

MaxDocs ==
    2

MaxJobs ==
    2

MaxInFlight ==
    2

NotifCap ==
    2

Docs == 1..MaxDocs

Jobs == 1..MaxJobs

\* Identifiers: documents and jobs are numbered in the order the backend
\* creates them, 0 is null.  A job has one WebSocket, named by the job; the
\* interval timers of one job run the same closure, so they are counted.
UpInit ==
    up = [ mounted            |-> TRUE,
           uploadedDocumentId |-> 0,
           currentJobId       |-> 0,
           wsRef              |-> 0,
           pollIntervalRef    |-> 0,
           nDocs              |-> 0,
           nJobs              |-> 0,
           startReqs          |-> [d \in Docs |-> 0],
           jobDoc             |-> [j \in Jobs |-> 0],
           backend            |-> [j \in Jobs |-> "pending"],
           error_message      |-> [j \in Jobs |-> ""],
           readyState         |-> [j \in Jobs |-> "NONE"],
           pingTimer          |-> [j \in Jobs |-> FALSE],
           onErrorCalls       |-> [j \in Jobs |-> 0],
           timers             |-> [j \in Jobs |-> 0],
           timersCreated      |-> [j \in Jobs |-> 0],
           inflight           |-> [j \in Jobs |-> [fresh |-> 0, stale |-> 0]],
           terminal           |-> [j \in Jobs |-> 0],
           staleDelivered     |-> FALSE,
           finalProgress      |-> [status |-> "idle", message |-> ""],
           errorsLogged       |-> 0 ]

\* WebSocket.close()
wsClose(state) ==
    IF state \in {"CONNECTING", "OPEN"} THEN "CLOSING" ELSE state

\* the requests of job j now in flight were issued before the poller was stopped
MarkStale(u, j) ==
    [u EXCEPT !.inflight[j] = [fresh |-> 0, stale |-> @.fresh + @.stale]]

cleanup(u) ==
    LET u1 == IF u.wsRef # 0
              THEN [u EXCEPT !.readyState[u.wsRef] = wsClose(@), !.wsRef = 0]
              ELSE u
    IN  IF u1.pollIntervalRef # 0
        THEN MarkStale([u1 EXCEPT !.timers[u1.pollIntervalRef] = @ - 1,
                                  !.pollIntervalRef = 0],
                       u1.pollIntervalRef)
        ELSE u1

\* the async-processing effect, run when uploadedDocumentId or currentJobId
\* changed: it requests startAsyncProcessing for the uploaded document
processingEffect(u) ==
    IF u.uploadedDocumentId # 0 /\ u.currentJobId = 0
    THEN [u EXCEPT !.startReqs[u.uploadedDocumentId] = @ + 1]
    ELSE u

setCurrentJobId(u, id) ==
    IF ~u.mounted \/ u.currentJobId = id THEN u
    ELSE processingEffect([u EXCEPT !.currentJobId = id])

setUploadedDocumentId(u, id) ==
    IF ~u.mounted \/ u.uploadedDocumentId = id THEN u
    ELSE processingEffect([u EXCEPT !.uploadedDocumentId = id])

startStatusPolling(u, j) ==
    [u EXCEPT !.timers[j] = @ + 1,
              !.timersCreated[j] = Min(@ + 1, NotifCap + 1),
              !.pollIntervalRef = j]

\* the onError callback handed to createProgressWebSocket for job j
onError(u, j) ==
    startStatusPolling([u EXCEPT !.onErrorCalls[j] = Min(@ + 1, NotifCap + 1)], j)

completedProgress ==
    [status |-> "complete", message |-> "Processing completed successfully!"]

failedProgress(message) ==
    [status |-> "error", message |-> message]

\* the completed and failed branches, of onStatusChange and of the poller:
\* final onUploadProgress(progress), toast, cleanup(), setCurrentJobId(null)
terminalBranch(u, j, progress) ==
    MarkStale(
        setCurrentJobId(
            cleanup([u EXCEPT !.terminal[j] = Min(@ + 1, NotifCap),
                              !.finalProgress = progress]),
            0),
        j)

\* the onStatusChange callback handed to createProgressWebSocket for job j
onStatusChange(u, j, status) ==
    IF status = "completed" THEN terminalBranch(u, j, completedProgress)
    ELSE IF status = "failed"
    THEN terminalBranch(u, j, failedProgress("Processing failed"))
    ELSE u

\* uploadDocument's onSuccess: a new document was uploaded
UploadSuccess ==
    /\ up.mounted
    /\ up.nDocs < MaxDocs
    /\ up' = setUploadedDocumentId([up EXCEPT !.nDocs = @ + 1], up.nDocs + 1)
    /\ UpFrame

\* startAsyncProcessing(d) resolves with a new job: setCurrentJobId, then
\* createProgressWebSocket
StartProcessingResolve(d) ==
    /\ up.startReqs[d] > 0
    /\ up.nJobs < MaxJobs
    /\ LET j == up.nJobs + 1 IN
        up' = [ setCurrentJobId(
                  [up EXCEPT !.startReqs[d] = @ - 1,
                             !.nJobs = j,
                             !.jobDoc[j] = d,
                             !.backend[j] = "processing"],
                  j)
                EXCEPT !.wsRef = j, !.readyState[j] = "CONNECTING" ]
    /\ UpFrame

\* startAsyncProcessing(d) rejects: error toast and error progress
StartProcessingReject(d) ==
    /\ up.startReqs[d] > 0
    /\ up' = [up EXCEPT !.startReqs[d] = @ - 1]
    /\ UpFrame

\* ws.onopen: the keepalive interval is set (and never cleared, so pingTimer
\* also tells that the socket was once open)
WsOpen(j) ==
    /\ up.readyState[j] = "CONNECTING"
    /\ up' = [up EXCEPT !.readyState[j] = "OPEN",
                         !.pingTimer[j] = TRUE]
    /\ UpFrame

WsMessageTypes ==
    {"progress_update", "job_status", "pong", "ping", "other", "unparsable"}

\* ws.onmessage; a job_status message carries the job's backend status
WsMessage(j, type) ==
    /\ up.readyState[j] = "OPEN"
    /\ up' = IF type = "job_status"
              THEN onStatusChange(up, j, up.backend[j])
              ELSE up
    /\ UpFrame

\* the connection fails: the browser sets CLOSED and fires error, then close
\* with code 1006, in one task (ws.onerror, then ws.onclose)
WsFail(j) ==
    /\ up.readyState[j] \in {"CONNECTING", "OPEN", "CLOSING"}
    /\ up' = onError(onError([up EXCEPT !.readyState[j] = "CLOSED"], j), j)
    /\ UpFrame

\* ws.onclose without a transport error: the server closes an open socket
\* (1000 or 1001), or the closing handshake started by close() completes
\* (1000, or 1005 when the server's close frame carries no code)
WsClosed(j, code) ==
    /\ \/ up.readyState[j] = "OPEN" /\ code \in {1000, 1001}
       \/ up.readyState[j] = "CLOSING" /\ up.pingTimer[j] /\ code \in {1000, 1005}
    /\ up' = IF code # 1000
              THEN onError([up EXCEPT !.readyState[j] = "CLOSED"], j)
              ELSE [up EXCEPT !.readyState[j] = "CLOSED"]
    /\ UpFrame

\* the status requests in flight, of all jobs
InFlight(u) ==
    LET sum[k \in 0..MaxJobs] ==
            IF k = 0 THEN 0
            ELSE sum[k - 1] + u.inflight[k].fresh + u.inflight[k].stale
    IN  sum[MaxJobs]

\* an interval timer of job j fires: getAsyncProcessingStatus is requested
PollTick(j) ==
    /\ up.timers[j] > 0
    /\ InFlight(up) < MaxInFlight
    /\ up' = [up EXCEPT !.inflight[j].fresh = @ + 1]
    /\ UpFrame

\* a status request of job j resolves with the job's backend status, with or
\* without a progress snapshot
PollResolve(j, stale, progress) ==
    /\ IF stale THEN up.inflight[j].stale > 0 ELSE up.inflight[j].fresh > 0
    /\ LET status == up.backend[j]
            u1 == IF stale
                  THEN [up EXCEPT !.inflight[j].stale = @ - 1,
                                  !.staleDelivered =
                                      @ \/ progress \/ status \in {"completed", "failed"}]
                  ELSE [up EXCEPT !.inflight[j].fresh = @ - 1]
        IN  up' = IF status = "completed"
                  THEN terminalBranch(u1, j, completedProgress)
                  ELSE IF status = "failed"
                  THEN terminalBranch(u1, j,
                           failedProgress(IF up.error_message[j] # ""
                                          THEN up.error_message[j]
                                          ELSE "Processing failed"))
                  ELSE u1
    /\ UpFrame

\* the catch block of the interval callback rethrows what it was to log
PollReject_Rethrows(j, stale) ==
    /\ IF stale THEN up.inflight[j].stale > 0 ELSE up.inflight[j].fresh > 0
    /\ LET u == [up EXCEPT !.errorsLogged = Min(@ + 1, LogCap)]
       IN  up' = IF stale
                 THEN [u EXCEPT !.inflight[j].stale = @ - 1]
                 ELSE terminalBranch([u EXCEPT !.inflight[j].fresh = @ - 1], j,
                                     failedProgress("Processing failed"))
    /\ UpFrame

\* a status request of job j rejects: the catch block logs it
PollReject(j, stale) ==
    /\ IF stale THEN up.inflight[j].stale > 0 ELSE up.inflight[j].fresh > 0
    /\ LET u == [up EXCEPT !.errorsLogged = Min(@ + 1, LogCap)]
       IN  up' = IF stale
                 THEN [u EXCEPT !.inflight[j].stale = @ - 1]
                 ELSE [u EXCEPT !.inflight[j].fresh = @ - 1]
    /\ UpFrame

\* the component unmounts: the cleanup effect runs
Unmount ==
    /\ up.mounted
    /\ up' = cleanup([up EXCEPT !.mounted = FALSE])
    /\ UpFrame

ErrorMessages ==
    {"", "OCR engine crashed"}

\* the backend finishes the job; the status of a failed job carries
\* error_message msg ("" when it has none)
BackendFinish(j, status, msg) ==
    /\ up.backend[j] = "processing"
    /\ up' = IF status = "failed"
              THEN [up EXCEPT !.backend[j] = "failed", !.error_message[j] = msg]
              ELSE [up EXCEPT !.backend[j] = "completed"]
    /\ UpFrame

UpNext ==
    \/ UploadSuccess
    \/ \E d \in Docs : StartProcessingResolve(d)
    \/ \E d \in Docs : StartProcessingReject(d)
    \/ \E j \in Jobs : WsOpen(j)
    \/ \E j \in Jobs, type \in WsMessageTypes : WsMessage(j, type)
    \/ \E j \in Jobs : WsFail(j)
    \/ \E j \in Jobs, code \in {1000, 1001, 1005} : WsClosed(j, code)
    \/ \E j \in Jobs : PollTick(j)
    \/ \E j \in Jobs, stale \in BOOLEAN, progress \in BOOLEAN :
            PollResolve(j, stale, progress)
    \/ \E j \in Jobs, stale \in BOOLEAN : PollReject(j, stale)
    \/ Unmount
    \/ \E j \in Jobs, status \in {"completed", "failed"} :
            BackendFinish(j, status, "OCR engine crashed")

----------------------------------------------------------------------------
(* DocumentService.createProgressWebSocket: one socket, callbacks counted *)

CallCap ==
    2

MaxSilent ==
    2

\* the state after createProgressWebSocket returned: the socket is
\* connecting, no callback has been invoked
WsInit ==
    ws = [ readyState      |-> "CONNECTING",
           pingInterval    |-> FALSE,
           silentIntervals |-> 0,
           received        |-> "none",
           calls           |-> [onProgress |-> 0, onStatusChange |-> 0,
                                onError |-> 0] ]

Invoke(w, callback) ==
    [w EXCEPT !.calls[callback] = Min(@ + 1, CallCap)]

\* ws.onerror
ws_onerror(w) ==
    Invoke(w, "onError")

\* ws.onclose
ws_onclose(w, code) ==
    IF code # 1000 THEN Invoke(w, "onError") ELSE w

\* ws.onopen: the keepalive interval is set
ws_onopen ==
    /\ ws.readyState = "CONNECTING"
    /\ ws' = [ws EXCEPT !.readyState = "OPEN", !.pingInterval = TRUE]
    /\ WsFrame

\* a message arrives and is handled as an unknown type would be, except
\* that an unknown or unparsable message is reported through onError
ws_onmessage_UnknownIsError(type, progress) ==
    /\ ws.readyState = "OPEN"
    /\ LET w == [ws EXCEPT !.received = type, !.silentIntervals = 0]
       IN  ws' = IF type = "progress_update" /\ progress
                 THEN Invoke(w, "onProgress")
                 ELSE IF type = "job_status"
                 THEN Invoke(w, "onStatusChange")
                 ELSE IF type \in {"pong", "progress_update"} THEN w
                 ELSE Invoke(w, "onError")
    /\ WsFrame

\* ws.onmessage for a message of the given type; progress tells whether
\* data.progress is set; an unparsable payload makes JSON.parse throw
ws_onmessage(type, progress) ==
    /\ ws.readyState = "OPEN"
    /\ LET w == [ws EXCEPT !.received = type, !.silentIntervals = 0]
       IN  ws' = IF type = "unparsable" THEN w
                 ELSE IF type = "progress_update" /\ progress
                 THEN Invoke(w, "onProgress")
                 ELSE IF type = "job_status"
                 THEN Invoke(w, "onStatusChange")
                 ELSE w
    /\ WsFrame

\* the keepalive interval fires (it is never cleared): a ping is sent if
\* the socket is open; one more interval has passed without a message
ws_ping ==
    /\ ws.pingInterval
    /\ ws' = IF ws.readyState = "OPEN"
             THEN [ws EXCEPT !.silentIntervals = Min(@ + 1, MaxSilent)]
             ELSE ws
    /\ WsFrame

\* the owner of the socket calls close()
ws_close ==
    /\ ws.readyState \in {"CONNECTING", "OPEN"}
    /\ ws' = [ws EXCEPT !.readyState = wsClose(@)]
    /\ WsFrame

\* the connection fails: error event, then close event with code 1006
ws_fail ==
    /\ ws.readyState \in {"CONNECTING", "OPEN", "CLOSING"}
    /\ ws' = ws_onclose(ws_onerror([ws EXCEPT !.readyState = "CLOSED"]), 1006)
    /\ WsFrame

\* the connection is closed without a transport error (see WsClosed)
ws_closed(code) ==
    /\ \/ ws.readyState = "OPEN" /\ code \in {1000, 1001}
       \/ ws.readyState = "CLOSING" /\ ws.pingInterval /\ code \in {1000, 1005}
    /\ ws' = ws_onclose([ws EXCEPT !.readyState = "CLOSED"], code)
    /\ WsFrame

WsNext ==
    \/ ws_onopen
    \/ \E type \in WsMessageTypes, progress \in BOOLEAN : ws_onmessage(type, progress)
    \/ ws_ping
    \/ ws_close
    \/ ws_fail
    \/ \E code \in {1000, 1001, 1005} : ws_closed(code)

----------------------------------------------------------------------------
(* ApiClient.makeRequest, handleApiError, isRetryableError *)

DefaultRetries ==
    3

RetriesOptions ==
    0..DefaultRetries

S_fetch ==
    <<"f", "e", "t", "c", "h">>

\* the TypeError messages of a failed fetch (Chromium, WebKit)
M_FailedToFetch ==
    <<"F", "a", "i", "l", "e", "d", " ", "t", "o", " ", "f", "e", "t", "c", "h">>

M_LoadFailed ==
    <<"L", "o", "a", "d", " ", "f", "a", "i", "l", "e", "d">>

NetworkErrorMessages ==
    {M_FailedToFetch, M_LoadFailed}

ResponseStatuses ==
    {200, 400, 404, 500, 503}

\* the type field of an error response's JSON body; "unparsable" is a body
\* that response.json() rejects
ErrorBodies ==
    {"ValidationError", "DocumentError", "unparsable"}

\* new ApiException(apiError, status): its status and type properties
ApiException(type, status) ==
    [name |-> "ApiException", type |-> type, status |-> status]

NoError ==
    [name |-> "none", type |-> "none", status |-> 0]

\* what fetch rejects with
TypeError(message) ==
    [name |-> "TypeError", message |-> message]

AbortError ==
    [name |-> "AbortError"]

\* what response.json() rejects with when the body is not JSON
SyntaxError ==
    [name |-> "SyntaxError"]

handleApiError(error) ==
    IF error.name = "TypeError" /\ StrIncludes(error.message, S_fetch)
    THEN ApiException("NetworkError", 0)
    ELSE IF error.name = "AbortError"
    THEN ApiException("TimeoutError", 408)
    ELSE IF "status" \in DOMAIN error /\ "data" \in DOMAIN error
    THEN ApiException(error.data.type, error.status)
    ELSE ApiException("UnknownError", 500)

isRetryableError(error) ==
    \/ error.type = "NetworkError"
    \/ error.type = "TimeoutError"
    \/ (error.status >= 500 /\ error.status < 600)

\* no request is followed: a call fixed at its first fetch, default retries
RqIdle ==
    rq = [ pc           |-> "fetch",
           retries      |-> DefaultRetries,
           attempt      |-> 0,
           fetches      |-> 1,
           timeoutArmed |-> TRUE,
           aborted      |-> FALSE,
           lastResponse |-> 0,
           lastError    |-> NoError,
           delay        |-> 0 ]

\* makeRequest was called and has issued its first fetch, with the timeout set
RqInit ==
    \E retries \in RetriesOptions :
        rq = [ pc           |-> "fetch",
               retries      |-> retries,
               attempt      |-> 0,
               fetches      |-> 1,
               timeoutArmed |-> TRUE,
               aborted      |-> FALSE,
               lastResponse |-> 0,
               lastError    |-> NoError,
               delay        |-> 0 ]

\* the catch block, leaving the loop one attempt later than the code does
catchBlock_OneMoreAttempt(r, error) ==
    LET lastError == handleApiError(error)
        r1 == [r EXCEPT !.timeoutArmed = FALSE, !.lastError = lastError]
    IN  IF ~isRetryableError(lastError) \/ r.attempt = r.retries + 1
        THEN [r1 EXCEPT !.pc = "thrown"]
        ELSE [r1 EXCEPT !.pc = "backoff", !.delay = (2 ^ r.attempt) * 1000]

\* the catch block of the retry loop
catchBlock(r, error) ==
    LET lastError == handleApiError(error)
        r1 == [r EXCEPT !.timeoutArmed = FALSE, !.lastError = lastError]
    IN  IF ~isRetryableError(lastError) \/ r.attempt = r.retries
        THEN [r1 EXCEPT !.pc = "thrown"]
        ELSE [r1 EXCEPT !.pc = "backoff", !.delay = (2 ^ r.attempt) * 1000]

\* response.ok
ok(status) ==
    status >= 200 /\ status <= 299

\* the errorData of an error response: its JSON body, or the HttpError
\* record built when the body cannot be parsed
errorData(body) ==
    IF body = "unparsable" THEN "HttpError" ELSE body

\* fetch resolves with a response of the given status; body is the type
\* field of an error response's JSON body, or "unparsable" for a body
\* (of an error or of a JSON success response) that response.json() rejects
RqResponse(status, body) ==
    /\ rq.pc = "fetch"
    /\ ~rq.aborted
    /\ LET r == [rq EXCEPT !.timeoutArmed = FALSE, !.lastResponse = status]
       IN  rq' = IF ~ok(status)
                 THEN catchBlock(r, ApiException(errorData(body), status))
                 ELSE IF body = "unparsable"
                 THEN catchBlock(r, SyntaxError)
                 ELSE [r EXCEPT !.pc = "returned"]
    /\ RqFrame

\* fetch rejects: the network failed
RqNetworkError(message) ==
    /\ rq.pc = "fetch"
    /\ ~rq.aborted
    /\ rq' = catchBlock(rq, TypeError(message))
    /\ RqFrame

\* the request timeout fires: controller.abort()
RqTimeout ==
    /\ rq.timeoutArmed
    /\ rq' = [rq EXCEPT !.timeoutArmed = FALSE, !.aborted = TRUE]
    /\ RqFrame

\* fetch rejects because its signal is aborted
RqAborted ==
    /\ rq.pc = "fetch"
    /\ rq.aborted
    /\ rq' = catchBlock(rq, AbortError)
    /\ RqFrame

\* the backoff delay has passed: attempt++ and the next fetch is issued
RqBackoffDone ==
    /\ rq.pc = "backoff"
    /\ rq' = [rq EXCEPT !.pc = "fetch", !.attempt = @ + 1, !.fetches = @ + 1]
    /\ RqFrame

RqNext ==
    \/ \E status \in ResponseStatuses, body \in ErrorBodies : RqResponse(status, body)
    \/ \E message \in NetworkErrorMessages : RqNetworkError(message)
    \/ RqTimeout
    \/ RqAborted
    \/ RqBackoffDone

----------------------------------------------------------------------------
(* useApi: execute, reset, unmount *)

MaxCalls ==
    3

Calls == 1..MaxCalls

\* Calls of execute are numbered in call order; call c creates controller c
\* and its apiFunction resolves with result c or rejects with error c.
\* 0 is null.
UaInit ==
    ua = [ mounted            |-> TRUE,
           data               |-> 0,
           error              |-> 0,
           loading            |-> FALSE,
           abortControllerRef |-> 0,
           aborted            |-> [c \in Calls |-> FALSE],
           pending            |-> [c \in Calls |-> FALSE],
           nCalls             |-> 0 ]

\* abortControllerRef.current?.signal.aborted
currentAborted(u) ==
    u.abortControllerRef # 0 /\ u.aborted[u.abortControllerRef]

\* abortControllerRef.current.abort(), if there is a controller
abortCurrent(u) ==
    IF u.abortControllerRef # 0
    THEN [u EXCEPT !.aborted[u.abortControllerRef] = TRUE]
    ELSE u

\* a state setter: no effect once the component is unmounted
setState(u, field, value) ==
    IF u.mounted THEN [u EXCEPT ![field] = value] ELSE u

\* the finally block of execute
executeFinally(u) ==
    IF ~currentAborted(u) THEN setState(u, "loading", FALSE) ELSE u

\* execute is called: the part before the await
UaExecute ==
    /\ ua.mounted
    /\ ua.nCalls < MaxCalls
    /\ LET c == ua.nCalls + 1
           u1 == [abortCurrent(ua) EXCEPT !.abortControllerRef = c,
                                          !.nCalls = c,
                                          !.pending[c] = TRUE]
       IN  ua' = setState(setState(u1, "loading", TRUE), "error", 0)
    /\ UaFrame

\* apiFunction of call c resolves: the rest of the try block, and finally
UaResolve(c) ==
    /\ ua.pending[c]
    /\ LET u1 == [ua EXCEPT !.pending[c] = FALSE]
           u2 == IF ~currentAborted(u1) THEN setState(u1, "data", c) ELSE u1
       IN  ua' = executeFinally(u2)
    /\ UaFrame

\* apiFunction of call c rejects (a failed request, or a fetch aborted
\* through the call's signal): the catch block, and finally
UaReject(c) ==
    /\ ua.pending[c]
    /\ LET u1 == [ua EXCEPT !.pending[c] = FALSE]
           u2 == IF ~currentAborted(u1) THEN setState(u1, "error", c) ELSE u1
       IN  ua' = executeFinally(u2)
    /\ UaFrame

\* reset()
UaReset ==
    /\ ua.mounted
    /\ ua' = setState(setState(setState(abortCurrent(ua), "data", 0),
                               "loading", FALSE), "error", 0)
    /\ UaFrame

\* the component unmounts: the cleanup effect aborts the current controller
UaUnmount ==
    /\ ua.mounted
    /\ ua' = [abortCurrent(ua) EXCEPT !.mounted = FALSE]
    /\ UaFrame

UaNext ==
    \/ UaExecute
    \/ \E c \in Calls : UaResolve(c)
    \/ \E c \in Calls : UaReject(c)
    \/ UaReset
    \/ UaUnmount

----------------------------------------------------------------------------
(* useSendMessageMutation: the cached message list of one chat session *)

MaxSends == 2

MaxNow == 2

Sends == 1..MaxSends

Contents == {"hello", "why?"}

M_tempPrefix ==
    <<"t", "e", "m", "p", "-">>

M_msgPrefix ==
    <<"m", "s", "g", "_">>

\* String(Date.now()) for the model's clock values
DateNow(now) ==
    <<<<"0", "1", "2", "3", "4", "5", "6", "7", "8", "9">>[now + 1]>>

\* String.prototype.startsWith(prefix)
startsWith(str, prefix) ==
    /\ Len(str) >= Len(prefix)
    /\ SubSeq(str, 1, Len(prefix)) = prefix

\* a || b on strings: the empty (or absent) string is falsy
OrElse(a, b, empty) ==
    IF a = empty THEN b ELSE a

\* a cached array, or undefined when the cache has no entry
Undefined ==
    [defined |-> FALSE, items |-> <<>>]

Array(items) ==
    [defined |-> TRUE, items |-> items]

\* the bodies the backend may answer with; an absent field is empty
ApiMessages ==
    [message_id : {<<>>, <<"m", "1">>, <<"m", "2">>},
     id : {<<>>},
     user_message : Contents,
     assistant_response : {"", "answer"},
     content : {""},
     role : {""}]

adaptApiChatMessageToUI(apiMessage, now) ==
    [id |-> OrElse(apiMessage.message_id,
                   OrElse(apiMessage.id, M_msgPrefix \o DateNow(now), <<>>),
                   <<>>),
     content |-> OrElse(apiMessage.assistant_response,
                        OrElse(apiMessage.content, "", ""), ""),
     role |-> OrElse(apiMessage.role, "assistant", "")]

NoMessage ==
    [id |-> <<>>, content |-> "", role |-> ""]

CmInit ==
    cm = [messages |-> Undefined,
          now |-> 0,
          nSends |-> 0,
          state |-> [m \in Sends |-> "idle"],
          content |-> [m \in Sends |-> ""],
          previousMessages |-> [m \in Sends |-> Undefined],
          newMessage |-> [m \in Sends |-> NoMessage],
          sessionInvalidated |-> FALSE,
          errorToasts |-> 0]

\* the updater's default parameter: (old = []) => ...
oldOrEmpty(messages) ==
    IF messages.defined THEN messages.items ELSE <<>>

\* old.filter((msg) => !msg.id.startsWith("temp-"))
withoutOptimistic(old) ==
    SelectSeq(old, LAMBDA msg : ~startsWith(msg.id, M_tempPrefix))

\* mutate({sessionId, content}): onMutate snapshots the list and appends the
\* optimistic user message; the request is then in flight
CmMutate(content) ==
    /\ cm.nSends < MaxSends
    /\ LET m == cm.nSends + 1
           optimisticUserMessage ==
               [id |-> M_tempPrefix \o DateNow(cm.now),
                content |-> content,
                role |-> "user"]
       IN  cm' = [cm EXCEPT
                    !.nSends = m,
                    !.state[m] = "pending",
                    !.content[m] = content,
                    !.previousMessages[m] = cm.messages,
                    !.messages = Array(Append(oldOrEmpty(cm.messages),
                                              optimisticUserMessage))]
    /\ CmFrame

\* the request of mutation m succeeds: mutationFn adapts the body, onSuccess
\* rewrites the list and invalidates the session
CmSuccess(m, apiMessage) ==
    /\ cm.state[m] = "pending"
    /\ apiMessage.user_message = cm.content[m]
    /\ LET newMessage == adaptApiChatMessageToUI(apiMessage, cm.now)
       IN  cm' = [cm EXCEPT
                    !.state[m] = "success",
                    !.newMessage[m] = newMessage,
                    !.messages =
                        Array(Append(withoutOptimistic(
                                         oldOrEmpty(cm.messages)),
                                     newMessage)),
                    !.sessionInvalidated = TRUE]
    /\ CmFrame

\* the request of mutation m fails: onError rolls back to the snapshot, if
\* there is one, and shows the error
CmError(m) ==
    /\ cm.state[m] = "pending"
    /\ cm' = [cm EXCEPT
                !.state[m] = "error",
                !.messages = IF cm.previousMessages[m].defined
                             THEN cm.previousMessages[m]
                             ELSE @,
                !.errorToasts = @ + 1]
    /\ CmFrame

\* a millisecond passes
CmTick ==
    /\ cm.now < MaxNow
    /\ cm' = [cm EXCEPT !.now = @ + 1]
    /\ CmFrame

CmNext ==
    \/ \E content \in Contents : CmMutate(content)
    \/ \E m \in Sends, apiMessage \in ApiMessages : CmSuccess(m, apiMessage)
    \/ \E m \in Sends : CmError(m)
    \/ CmTick

----------------------------------------------------------------------------
(* useDeleteDocumentMutation: the cached documents list *)

MaxDeletes == 2

Deletes == 1..MaxDeletes

\* the documents of the backend, in the order in which it lists them
AllDocuments ==
    <<"a", "b", "c">>

DocIds ==
    {AllDocuments[k] : k \in 1..Len(AllDocuments)}

\* the answer of getDocuments for the documents the server holds
listOf(server) ==
    SelectSeq(AllDocuments, LAMBDA id : id \in server)

DlInit ==
    dl = [documents |-> Undefined,
          server |-> DocIds,
          fetching |-> TRUE,
          details |-> {},
          nDeletes |-> 0,
          state |-> [m \in Deletes |-> "idle"],
          deletedId |-> [m \in Deletes |-> ""],
          previousDocuments |-> [m \in Deletes |-> Undefined],
          successToasts |-> 0,
          errorToasts |-> 0]

\* previousDocuments.filter((doc) => doc.id !== deletedId)
filterOut(documents, deletedId) ==
    SelectSeq(documents, LAMBDA id : id # deletedId)

\* onSettled: invalidateQueries(documents) refetches the mounted list query
onSettled(d) ==
    [d EXCEPT !.fetching = TRUE]

\* mutate(id): onMutate cancels the list fetch, snapshots the list, removes
\* the document from it and drops the document's own cache entry; the
\* delete request is then in flight
DlMutate(deletedId) ==
    /\ dl.nDeletes < MaxDeletes
    /\ LET m == dl.nDeletes + 1
           previousDocuments == dl.documents
       IN  dl' = [dl EXCEPT
                    !.nDeletes = m,
                    !.state[m] = "pending",
                    !.deletedId[m] = deletedId,
                    !.fetching = FALSE,
                    !.previousDocuments[m] = previousDocuments,
                    !.documents =
                        IF previousDocuments.defined
                        THEN Array(filterOut(previousDocuments.items,
                                             deletedId))
                        ELSE @,
                    !.details = @ \ {deletedId}]
    /\ DlFrame

\* the backend carries out the delete request of mutation m
DlServerApply(m) ==
    /\ dl.state[m] = "pending"
    /\ dl' = [dl EXCEPT !.state[m] = "applied",
                        !.server = @ \ {dl.deletedId[m]}]
    /\ DlFrame

\* the request of mutation m resolves: onSuccess, onSettled
DlSuccess(m) ==
    /\ dl.state[m] = "applied"
    /\ dl' = onSettled([dl EXCEPT !.state[m] = "success",
                                  !.successToasts = @ + 1])
    /\ DlFrame

DlError_NoRollback(m) ==
    /\ dl.state[m] \in {"pending", "applied"}
    /\ dl' = onSettled([dl EXCEPT !.state[m] = "error",
                                  !.errorToasts = @ + 1])
    /\ DlFrame

\* the request of mutation m rejects (refused by the backend, or its answer
\* is lost): onError rolls back to the snapshot, onSettled
DlError(m) ==
    /\ dl.state[m] \in {"pending", "applied"}
    /\ dl' = onSettled([dl EXCEPT
                          !.state[m] = "error",
                          !.documents =
                              IF dl.previousDocuments[m].defined
                              THEN dl.previousDocuments[m]
                              ELSE @,
                          !.errorToasts = @ + 1])
    /\ DlFrame

\* the list query's fetch resolves with the server's documents
DlFetchResolve ==
    /\ dl.fetching
    /\ dl' = [dl EXCEPT !.fetching = FALSE,
                        !.documents = Array(listOf(dl.server))]
    /\ DlFrame

\* a document page is opened and its query resolves
DlDetailFetched(id) ==
    /\ id \in dl.server
    /\ id \notin dl.details
    /\ dl' = [dl EXCEPT !.details = @ \cup {id}]
    /\ DlFrame

DlNext ==
    \/ \E id \in DocIds : DlMutate(id)
    \/ \E m \in Deletes : DlServerApply(m)
    \/ \E m \in Deletes : DlSuccess(m)
    \/ \E m \in Deletes : DlError(m)
    \/ DlFetchResolve
    \/ \E id \in DocIds : DlDetailFetched(id)

----------------------------------------------------------------------------
(* Specifications *)

Init ==
    StatusIdle /\ DsInit /\ JpInit /\ UpInit /\ WsInit /\ RqIdle /\ UaInit
    /\ CmInit /\ DlInit

Next ==
    UpNext

Spec ==
    Init /\ [][Next]_vars

StatusSpecInit ==
    StatusInit /\ DsInit /\ JpInit /\ UpInit /\ WsInit /\ RqIdle /\ UaInit
    /\ CmInit /\ DlInit

StatusSpec ==
    StatusSpecInit /\ [][StatusNext]_vars

DocStatusInit ==
    StatusIdle /\ DsInit /\ JpInit /\ UpInit /\ WsInit /\ RqIdle /\ UaInit
    /\ CmInit /\ DlInit

DocStatusSpec ==
    DocStatusInit /\ [][DsNext]_vars

\* every status request settles, and a scheduled timer fires
DocStatusFairSpec ==
    /\ DocStatusSpec
    /\ WF_vars(DsFetchResolve \/ DsFetchError)
    /\ WF_vars(DsTimerFire)

JobPollerInit ==
    StatusIdle /\ DsInit /\ JpInit /\ UpInit /\ WsInit /\ RqIdle /\ UaInit
    /\ CmInit /\ DlInit

JobPollerSpec ==
    JobPollerInit /\ [][JpNext]_vars

\* every status request resolves or rejects, and a set timeout fires
JobPollerFairSpec ==
    /\ JobPollerSpec
    /\ WF_vars(JpResolve \/ JpReject)
    /\ WF_vars(JpTimer)

\* the hook followed for the first document and the first job only
FirstJobNext ==
    \/ UploadSuccess
    \/ StartProcessingResolve(1)
    \/ StartProcessingReject(1)
    \/ WsOpen(1)
    \/ \E type \in WsMessageTypes : WsMessage(1, type)
    \/ WsFail(1)
    \/ \E code \in {1000, 1001, 1005} : WsClosed(1, code)
    \/ PollTick(1)
    \/ \E stale \in BOOLEAN, progress \in BOOLEAN : PollResolve(1, stale, progress)
    \/ \E stale \in BOOLEAN : PollReject(1, stale)
    \/ Unmount
    \/ \E status \in {"completed", "failed"}, msg \in ErrorMessages :
            BackendFinish(1, status, msg)

FirstJobInit ==
    StatusIdle /\ DsInit /\ JpInit /\ UpInit /\ WsInit /\ RqIdle /\ UaInit
    /\ CmInit /\ DlInit

FirstJobSpec ==
    FirstJobInit /\ [][FirstJobNext]_vars

\* a live interval timer fires, and every status request resolves or rejects
FirstJobFairSpec ==
    /\ FirstJobSpec
    /\ WF_vars(PollTick(1))
    /\ WF_vars(\E stale \in BOOLEAN :
                   \/ PollReject(1, stale)
                   \/ \E progress \in BOOLEAN : PollResolve(1, stale, progress))

\* the two job pollers, one of them used in a behaviour: the poller of the
\* upload mutation while the upload container is unused, or the container
\* while the mutation's poller has not been started
PollersNext ==
    \/ up.nDocs = 0 /\ JpNext
    \/ jpPc = "idle" /\ jpBackend = "pending" /\ FirstJobNext

PollersInit ==
    StatusIdle /\ DsInit /\ JpInit /\ UpInit /\ WsInit /\ RqIdle /\ UaInit
    /\ CmInit /\ DlInit

PollersSpec ==
    PollersInit /\ [][PollersNext]_vars

RequestInit ==
    StatusIdle /\ DsInit /\ JpInit /\ UpInit /\ WsInit /\ RqInit /\ UaInit
    /\ CmInit /\ DlInit

RequestSpec ==
    RequestInit /\ [][RqNext]_vars

SendMessageInit ==
    StatusIdle /\ DsInit /\ JpInit /\ UpInit /\ WsInit /\ RqIdle /\ UaInit
    /\ CmInit /\ DlInit

SendMessageSpec ==
    SendMessageInit /\ [][CmNext]_vars

DeleteDocumentInit ==
    StatusIdle /\ DsInit /\ JpInit /\ UpInit /\ WsInit /\ RqIdle /\ UaInit
    /\ CmInit /\ DlInit

DeleteDocumentSpec ==
    DeleteDocumentInit /\ [][DlNext]_vars

UseApiInit ==
    StatusIdle /\ DsInit /\ JpInit /\ UpInit /\ WsInit /\ RqIdle /\ UaInit
    /\ CmInit /\ DlInit

UseApiSpec ==
    UseApiInit /\ [][UaNext]_vars

ChannelInit ==
    StatusIdle /\ DsInit /\ JpInit /\ UpInit /\ WsInit /\ RqIdle /\ UaInit
    /\ CmInit /\ DlInit

ChannelSpec ==
    ChannelInit /\ [][WsNext]_vars

----------------------------------------------------------------------------
(* Claims about the status adapters *)

UIStatuses ==
    {S_uploading, S_processing, S_ready, S_error}

\* the mapping table as the specification gives it
SpecStatusTable(status) ==
    CASE status \in {S_uploaded, S_pending} -> S_uploading
      [] status \in {S_processing, S_chunking, S_vectorizing, S_indexing,
                     S_parsing} -> S_processing
      [] status \in {S_processed, S_completed, S_ready, S_complete} -> S_ready
      [] OTHER -> S_error

\* the same table with "uploading" among the statuses shown as uploading
AmendedStatusTable(status) ==
    IF status = S_uploading THEN S_uploading ELSE SpecStatusTable(status)

\* C8 (as stated): after lower-casing, adaptDocumentStatus follows the
\* specification's table for every string; in particular every string outside
\* the three listed groups maps to error.
C8_AdaptFollowsSpecTable ==
    adapted # NoValue => adapted = SpecStatusTable(toLowerCase(apiStatus))

\* C8 (amended): adaptDocumentStatus is total into the four UI statuses and,
\* after lower-casing, follows the table in which {uploaded, pending,
\* uploading} map to uploading; every other string maps as the table says.
C8_AdaptFollowsAmendedTable ==
    adapted # NoValue =>
        /\ adapted \in UIStatuses
        /\ adapted = AmendedStatusTable(toLowerCase(apiStatus))

C8_Witness ==
    \/ apiStatus = toUpperCase(S_indexing) /\ adapted = S_processing
    \/ apiStatus = Capitalized(S_uploading) /\ adapted = S_uploading

RecognisedByAdapter(str) ==
    LET status == toLowerCase(str) IN
    \/ status \in {S_pending, S_uploaded, S_uploading, S_processing, S_chunking,
                    S_vectorizing, S_indexing, S_parsing, S_processed,
                    S_completed, S_ready, S_complete}
    \/ StrIncludes(status, S_error)
    \/ StrIncludes(status, S_fail)

RecognisedByCache(str) ==
    isBackendStatus(str) \/ isFrontendStatus(str)

RecognisedByService(str) ==
    str \in {S_processed, S_completed, S_error, S_processing, S_uploaded,
             S_pending}

\* C9: each of the three status mappings sends a backend status string it
\* does not recognise to error, never to uploading or processing.
C9_UnknownStatusMapsToError ==
    /\ (adapted # NoValue /\ ~RecognisedByAdapter(apiStatus))
            => adapted = S_error
    /\ (cacheStatus # NoValue /\ ~RecognisedByCache(apiStatus))
            => cacheStatus = S_error
    /\ (serviceStatus # NoValue /\ ~RecognisedByService(apiStatus))
            => serviceStatus = S_error

----------------------------------------------------------------------------
(* Claims about usePDFUploaderContainer and the progress WebSocket *)

Tracked(j) ==
    up.readyState[j] # "NONE"

WsShut(j) ==
    up.readyState[j] \in {"CLOSING", "CLOSED"}

\* C1: for one job, however WebSocket job_status events and poll results
\* (also of requests still in flight) that report the terminal status
\* interleave, the terminal notification (final onUploadProgress and toast)
\* is produced exactly once, never a second time.
C1_OneTerminalNotification ==
    \A j \in Jobs : up.terminal[j] <= 1

\* C3: over the lifetime of one WebSocket made by createProgressWebSocket,
\* onError is invoked at most once, whatever error and close events occur.
C3_OnErrorAtMostOnce ==
    \A j \in Jobs : up.onErrorCalls[j] <= 1

\* C4: once onError has been invoked for a job, the hook has switched to
\* fallback polling exactly once: exactly one poll timer was ever created
\* for the job, and the job's WebSocket is not in use again.
C4_FallbackExactlyOnce ==
    \A j \in Jobs :
        up.onErrorCalls[j] > 0 =>
            /\ up.timersCreated[j] = 1
            /\ up.readyState[j] \notin {"CONNECTING", "OPEN"}

\* C5: after a job has reached a terminal status in the hook, its WebSocket
\* is closed, no poll timer of it is scheduled, and no new status request
\* for it is issued.
C5_TerminalStopsEverything ==
    /\ [](\A j \in Jobs : up.terminal[j] > 0 => WsShut(j) /\ up.timers[j] = 0)
    /\ [][\A j \in Jobs : up.terminal[j] > 0 =>
                up'.inflight[j].fresh <= up.inflight[j].fresh]_vars

\* C6: when tracking of the job of a newer upload has begun, the WebSocket
\* of every earlier job (of another document) that has not reached a terminal
\* status is closed and its poll timer cleared, and no status request for the
\* earlier job is issued any more.
C6_PriorJobTornDown ==
    /\ [](\A j, k \in Jobs :
            (j < k /\ Tracked(k) /\ up.jobDoc[j] # up.jobDoc[k]
                   /\ up.terminal[j] = 0) =>
                WsShut(j) /\ up.timers[j] = 0)
    /\ [][\A j, k \in Jobs :
            (j < k /\ Tracked(k) /\ up.jobDoc[j] # up.jobDoc[k]
                   /\ up.terminal[j] = 0) =>
                up'.inflight[j].fresh <= up.inflight[j].fresh]_vars

\* C7: the result of a status request that was in flight when its job
\* reached a terminal state, or when cleanup stopped its poller, is
\* discarded: it causes no onUploadProgress update and no toast.
C7_StaleResultDiscarded ==
    ~up.staleDelivered

----------------------------------------------------------------------------
(* Claims about useDocumentStatusQuery *)

DsNotInProgress ==
    {S_completed, S_processed, S_error, S_failed, S_cancelled, S_foobar}

\* C10: if the backend document status eventually becomes and stays a value
\* that is not in progress (completed, processed, error, failed or an unknown
\* string), the status polling eventually stops: no refetch timer is
\* scheduled and no status request is in flight any more.
C10_PollingStopsOnSettledStatus ==
    <>[](dsBackend \in DsNotInProgress) => <>[](~dsTimer /\ ~dsFetching)

\* C24: while the cached status stays the same terminal status, evaluating
\* the polling decision again sets no further invalidation timeout and shows
\* no further completion toast
C24_TerminalEffectsOnce ==
    [][(dsData' = dsData /\ refetchIntervalEffects(dsData, dsFx) # dsFx)
        => (dsFx'.scheduled = dsFx.scheduled /\ dsFx'.toasts = dsFx.toasts)]_vars

----------------------------------------------------------------------------
(* Claims about pollAsyncJobStatus *)

JpTotalToasts ==
    jpToasts.success + jpToasts.failed + jpToasts.timeout + jpToasts.monitor

\* C2: for a started job, given that every status request settles, the job
\* poller eventually emits exactly one terminal notification: never more
\* than one, never a success together with a failure, and never none.
C2_ExactlyOneTerminalNotification ==
    /\ [](JpTotalToasts <= 1)
    /\ [](jpToasts.success = 0 \/ jpToasts.failed + jpToasts.timeout + jpToasts.monitor = 0)
    /\ [](jpPc = "done" => JpTotalToasts = 1)
    /\ (jpPc # "idle") ~> (jpPc = "done" /\ JpTotalToasts = 1)

C2_Witness ==
    /\ jpPc = "done"
    /\ attempts = maxAttempts
    /\ jpToasts.timeout = 1
    /\ jpBackend = "cancelled"

\* C22: the job poller issues at most maxAttempts status requests; it
\* issues a request only when no earlier request is unsettled and no
\* terminal notification has been shown.
C22_BoundedSequentialPolling ==
    /\ [](attempts <= maxAttempts)
    /\ [][attempts' # attempts =>
            (/\ attempts' = attempts + 1
             /\ jpPc # "request"
             /\ jpPc' = "request"
             /\ JpTotalToasts = 0)]_vars
    /\ [](jpPc = "done" => JpTotalToasts = 1)
    /\ [][jpPc = "done" => jpPc' = "done"]_vars

C22_Witness ==
    /\ jpPc = "done"
    /\ attempts = maxAttempts
    /\ jpToasts.monitor = 1
    /\ jpErrorsLogged > 0

\* C12: when the job poller has ended at maxAttempts without having seen
\* status completed or failed (no success and no failure toast), the one
\* notification it showed is the timeout toast "Document processing timed
\* out", also when the last attempt threw.
C12_TimeoutNotification ==
    (jpPc = "done" /\ jpToasts.success = 0 /\ jpToasts.failed = 0) =>
        (jpToasts.timeout = 1 /\ jpToasts.monitor = 0)

\* C14: when the job poller has ended (completed, failed or timed out), it
\* has requested invalidation of the document list and of the document's
\* detail entry exactly once each.
C14_InvalidationExactlyOnce ==
    jpPc = "done" => (jpInvalidated.documents = 1 /\ jpInvalidated.document = 1)

----------------------------------------------------------------------------
(* Claims about the fallback poller of usePDFUploaderContainer *)

\* C13: whenever the hook ends a job whose backend status is failed and whose
\* status carries an error message, over either channel, the final UI update
\* has status error and that backend-supplied message.
C13_FailedShowsBackendMessage ==
    [][\A j \in Jobs :
          (/\ up'.terminal[j] > up.terminal[j]
           /\ up.backend[j] = "failed"
           /\ up.error_message[j] # "") =>
              up'.finalProgress = failedProgress(up.error_message[j])]_vars

\* C15: polling is non-overlapping: a job never has more than one status
\* request unresolved at a time.
C15_PollsDoNotOverlap ==
    \A j \in Jobs : up.inflight[j].fresh + up.inflight[j].stale <= 1

\* C11: a job whose fallback poller runs eventually reaches a terminal state
\* in the hook and its polling stops (unless the component unmounts), even
\* when the backend never reports a terminal status.
C11_EveryJobTerminates ==
    \A j \in Jobs :
        (up.timers[j] > 0) ~>
            (~up.mounted \/ (up.terminal[j] > 0 /\ up.timers[j] = 0))

\* C17: a step that starts the fallback poller of a job (creates its poll
\* timer) also issues the job's first status request.
C17_FirstPollImmediate ==
    [][\A j \in Jobs :
          up'.timersCreated[j] > up.timersCreated[j] =>
              up'.inflight[j].fresh > up.inflight[j].fresh]_vars

----------------------------------------------------------------------------
(* Claims about createProgressWebSocket *)

\* C18: when an open socket has delivered no message for the keepalive
\* interval (two keepalive ticks in a row with no message between them),
\* the channel has reported the liveness failure through onError.
C18_SilenceReportedByOnError ==
    (ws.readyState = "OPEN" /\ ws.silentIntervals >= 2) => ws.calls.onError > 0

IgnoredMessageTypes ==
    WsMessageTypes \ {"progress_update", "job_status"}

\* C19: handling a message whose type is neither progress_update nor
\* job_status (ping, pong, an unknown type, an unparsable payload) invokes
\* none of onProgress, onStatusChange and onError, and leaves the socket open.
C19_OtherMessagesIgnored ==
    [][\A type \in IgnoredMessageTypes, progress \in BOOLEAN :
          ws_onmessage(type, progress) =>
              (ws'.calls = ws.calls /\ ws'.readyState = "OPEN")]_vars

C19_Witness ==
    /\ ws.received \in IgnoredMessageTypes
    /\ ws.readyState = "OPEN"
    /\ ws.calls = [onProgress |-> 0, onStatusChange |-> 0, onError |-> 0]

----------------------------------------------------------------------------
(* Claims about both job pollers *)

\* C16: a single failed status request is swallowed by both pollers.  In the
\* poller of the upload mutation, a rejection below maxAttempts shows no
\* toast and sets the timeout for the next poll; in the fallback poller of
\* the upload container, a rejection leaves the notifications, the final
\* update and the poll timers as they were, so the next poll is issued.
C16_FailedRequestSwallowed ==
    [][/\ (JpReject /\ attempts < maxAttempts) =>
              (jpToasts' = jpToasts /\ jpDocStatus' = jpDocStatus /\ jpPc' = "timer")
       /\ \A j \in Jobs, stale \in BOOLEAN :
              PollReject(j, stale) =>
                  /\ up'.terminal = up.terminal
                  /\ up'.finalProgress = up.finalProgress
                  /\ up'.timers = up.timers
                  /\ up'.pollIntervalRef = up.pollIntervalRef
                  /\ up'.currentJobId = up.currentJobId]_vars

\* a status request failed and was logged, no notification was shown, and
\* the next request of the same poller is in flight: in the mutation's
\* poller, or in the container's fallback poller
C16_Witness ==
    \/ /\ jpErrorsLogged > 0
       /\ jpPc = "request"
       /\ attempts = 2
       /\ JpTotalToasts = 0
    \/ /\ up.errorsLogged > 0
       /\ up.timers[1] = 1
       /\ up.inflight[1] = [fresh |-> 1, stale |-> 0]
       /\ up.terminal[1] = 0

----------------------------------------------------------------------------
(* Claims about ApiClient.makeRequest *)

\* C20: when the server has answered a fetch with a 4xx status, makeRequest
\* throws without retrying: it is never waiting to retry, nor fetching
\* again, with a 4xx answer as the last response.
C20_NoRetryOn4xx ==
    (rq.lastResponse >= 400 /\ rq.lastResponse <= 499) => rq.pc = "thrown"

\* C21: makeRequest makes at most retries + 1 fetch attempts, waits
\* 2^k seconds after its attempt number k + 1 failed, returns at the first
\* response that is ok and readable, and what it throws is the error of the
\* attempt made last (as handleApiError presents it).
C21_BoundedRetriesWithBackoff ==
    /\ [](rq.fetches = rq.attempt + 1 /\ rq.fetches <= rq.retries + 1)
    /\ [](rq.pc = "backoff" => rq.delay = (2 ^ rq.attempt) * 1000)
    /\ [](rq.pc = "returned" => ok(rq.lastResponse))
    /\ [][\A status \in ResponseStatuses, body \in ErrorBodies :
            RqResponse(status, body) =>
                /\ (ok(status) /\ body # "unparsable") => rq'.pc = "returned"
                /\ (~ok(status) /\ rq'.pc = "thrown") =>
                       rq'.lastError =
                           handleApiError(ApiException(errorData(body), status))]_vars
    /\ [][\A message \in NetworkErrorMessages :
            (RqNetworkError(message) /\ rq'.pc = "thrown") =>
                rq'.lastError = handleApiError(TypeError(message))]_vars
    /\ [][(RqAborted /\ rq'.pc = "thrown") =>
                rq'.lastError = handleApiError(AbortError)]_vars

C21_Witness ==
    /\ rq.pc = "thrown"
    /\ rq.retries = DefaultRetries
    /\ rq.fetches = DefaultRetries + 1
    /\ rq.delay = 4000
    /\ rq.lastError = ApiException("NetworkError", 0)

\* C28: every fetch attempt, retries included, starts with a signal that is
\* not aborted and with the request timeout armed.
C28_EveryAttemptHasLiveTimeout ==
    [][rq'.fetches > rq.fetches => (~rq'.aborted /\ rq'.timeoutArmed)]_vars

\* C29: when the attempt made last was answered with a non-2xx status, the
\* ApiException thrown carries that status and the error type of the
\* response body.
C29_ThrownErrorCarriesResponse ==
    [][\A status \in ResponseStatuses, body \in ErrorBodies :
          (RqResponse(status, body) /\ ~ok(status) /\ rq'.pc = "thrown") =>
              (rq'.lastError.status = status /\ rq'.lastError.type = errorData(body))]_vars

----------------------------------------------------------------------------
(* Claims about useApi *)

\* C23: when a call of execute settles after a later call of execute was
\* made, its outcome changes none of data, error and loading; and once no
\* call is pending and the latest call was not cancelled, data is not the
\* result of an earlier call.
C23_EarlierCallIsCancelled ==
    /\ [][\A c \in Calls :
            ((UaResolve(c) \/ UaReject(c)) /\ c < ua.nCalls) =>
                /\ ua'.data = ua.data
                /\ ua'.error = ua.error
                /\ ua'.loading = ua.loading]_vars
    /\ []((/\ ua.nCalls > 0
           /\ \A c \in Calls : ~ua.pending[c]
           /\ ~ua.aborted[ua.abortControllerRef]
           /\ ua.data # 0) => ua.data = ua.nCalls)

\* C27: a document is the subject of at most one startAsyncProcessing
\* request, counting the requests in flight and the jobs they created
C27_OneProcessingRequestPerDocument ==
    \A d \in Docs :
        Cardinality({j \in Jobs : up.jobDoc[j] = d}) + up.startReqs[d] <= 1

----------------------------------------------------------------------------
(* Claims on the cached lists *)

\* C25: when a send succeeds, the session's cached list ends with the
\* user's message followed by the assistant response, holds no temp- entry,
\* and starts with the messages that were there before the send
C25_SuccessLeavesUserAndAssistant ==
    [][\A m \in Sends :
          (cm.state[m] = "pending" /\ cm'.state[m] = "success")
          => LET msgs == cm'.messages.items
                 before == oldOrEmpty(cm.previousMessages[m])
                 n == Len(msgs)
             IN  /\ n >= 2
                 /\ msgs[n - 1].role = "user"
                 /\ msgs[n - 1].content = cm.content[m]
                 /\ msgs[n] = cm'.newMessage[m]
                 /\ \A k \in 1..n : ~startsWith(msgs[k].id, M_tempPrefix)
                 /\ Len(before) <= n
                 /\ SubSeq(msgs, 1, Len(before)) = before]_vars

\* C26: when the delete request fails and a snapshot was taken, the cached
\* documents list is the snapshot again, so a document of the snapshot that
\* failed to delete is back in the list
C26_FailedDeleteRestoresSnapshot ==
    [][\A m \in Deletes :
          (dl.state[m] \in {"pending", "applied"} /\ dl'.state[m] = "error"
           /\ dl.previousDocuments[m].defined)
          => /\ dl'.documents = dl.previousDocuments[m]
             /\ (ArrIncludes(dl.previousDocuments[m].items, dl.deletedId[m])
                 => ArrIncludes(dl'.documents.items, dl.deletedId[m]))]_vars

\* a failed delete whose document was in the snapshot and is listed again
C26_Witness ==
    \E m \in Deletes :
        /\ dl.state[m] = "error"
        /\ dl.previousDocuments[m].defined
        /\ ArrIncludes(dl.previousDocuments[m].items, dl.deletedId[m])
        /\ dl.documents = dl.previousDocuments[m]

====
